---- MODULE Spec2Model ----
(***************************************************************************)
(* Wildfire resource deployment simulation                                *)
(* (Backend/current_optimise.py): a caller holds a list of incident rows  *)
(* and calls simulate_deployment on it, possibly more than once.  The     *)
(* call sorts the caller's list in place, walks it once and assigns       *)
(* non-reusable units from a copy of the module-level resource_pool.      *)
(*                                                                         *)
(* One step of the model is the entry of the call (sort + initialisation  *)
(* of the locals), one iteration of the for loop, or the return.          *)
(*                                                                         *)
(* SampSpec is the same for the older simulator of samp.py, which takes    *)
(* the number of allowed low misses as an argument, and ApiSpec is the     *)
(* POST /simulate/ handler of main.py under concurrent requests.           *)
(***************************************************************************)
EXTENDS Integers, Sequences, FiniteSets, TLC

(***************************************************************************)
(* Bounds of the model                                                     *)
(***************************************************************************)
\* timestamps are the instants 1..MaxTime
MaxTime == 2
\* every sequence of at most MaxLen rows is an input
MaxLen == 2
\* a bulk input is at most MaxHead arbitrary rows next to a block of equal rows
MaxHead == 1
\* the caller invokes simulate_deployment at most MaxCalls times on its list
MaxCalls == 2

(***************************************************************************)
(* Module-level data of current_optimise.py                                *)
(***************************************************************************)
\* the keys of resource_specs, in the insertion order of the dict
ResourceTypes ==
    <<"Smoke Jumpers", "Fire Engines", "Helicopters", "Tanker Planes", "Ground Crews">>

\* the catalog with the cost of a helicopter mistyped
resource_specs_mut ==
    [r \in {ResourceTypes[i] : i \in 1..Len(ResourceTypes)} |->
        CASE r = "Smoke Jumpers" -> [deployment_minutes |-> 30,  operational_cost |-> 5000,  count |-> 5]
          [] r = "Fire Engines"  -> [deployment_minutes |-> 60,  operational_cost |-> 2000,  count |-> 10]
          [] r = "Helicopters"   -> [deployment_minutes |-> 45,  operational_cost |-> 9000,  count |-> 3]
          [] r = "Tanker Planes" -> [deployment_minutes |-> 120, operational_cost |-> 15000, count |-> 2]
          [] r = "Ground Crews"  -> [deployment_minutes |-> 90,  operational_cost |-> 3000,  count |-> 8]]

resource_specs ==
    [r \in {ResourceTypes[i] : i \in 1..Len(ResourceTypes)} |->
        CASE r = "Smoke Jumpers" -> [deployment_minutes |-> 30,  operational_cost |-> 5000,  count |-> 5]
          [] r = "Fire Engines"  -> [deployment_minutes |-> 60,  operational_cost |-> 2000,  count |-> 10]
          [] r = "Helicopters"   -> [deployment_minutes |-> 45,  operational_cost |-> 8000,  count |-> 3]
          [] r = "Tanker Planes" -> [deployment_minutes |-> 120, operational_cost |-> 15000, count |-> 2]
          [] r = "Ground Crews"  -> [deployment_minutes |-> 90,  operational_cost |-> 3000,  count |-> 8]]

Severities == {"low", "medium", "high"}

\* the table with the damage of a missed medium incident off by a digit
damage_costs_mut == [s \in Severities |->
    CASE s = "low" -> 50000 [] s = "medium" -> 10000 [] s = "high" -> 200000]

damage_costs == [s \in Severities |->
    CASE s = "low" -> 50000 [] s = "medium" -> 100000 [] s = "high" -> 200000]

\* one unit dict of the pool
Unit(r_type) ==
    [resource_type      |-> r_type,
     deployment_minutes |-> resource_specs[r_type].deployment_minutes,
     operational_cost   |-> resource_specs[r_type].operational_cost]

\* count copies of x
Repeat(x, count) == [i \in 1..count |-> x]

\* the nested loop that fills resource_pool when the module is loaded
RECURSIVE BuildPool(_)
BuildPool(k) ==
    IF k = 0 THEN << >>
    ELSE BuildPool(k - 1)
         \o Repeat(Unit(ResourceTypes[k]), resource_specs[ResourceTypes[k]].count)

InitialPool == BuildPool(Len(ResourceTypes))

PoolSize == Len(InitialPool)

(***************************************************************************)
(* Strings and timestamps                                                  *)
(***************************************************************************)
\* the severity strings of the rows that differ only in letter case from a
\* known severity
SeverityStrings == Severities \cup {"High", "LOW"}

\* a severity string that is no known severity in any letter case
UnknownSeverity == "extreme"

\* stands for the value of a key the dict of a row does not have
Absent == "(absent)"

\* str.lower() on the strings of the model
Lower(s) ==
    CASE s = "High" -> "high"
      [] s = "LOW"  -> "low"
      [] OTHER      -> s

\* a timestamp field is a str in DATE_FORMAT, a str in another format, absent
\* or, once the loop has converted it, a datetime object; t is the instant it
\* denotes
TimeStr(t) == [kind |-> "str", t |-> t]
BadTimeStr(t) == [kind |-> "badstr", t |-> t]
AbsentTime == [kind |-> Absent, t |-> 0]
DateTime(t) == [kind |-> "datetime", t |-> t]

\* datetime.strptime(ts, DATE_FORMAT): the exception it raises, or "none"
StrptimeError(ts) ==
    IF ts.kind = "str" THEN "none"
    ELSE IF ts.kind = "badstr" THEN "ValueError"
    ELSE "TypeError"
strptime(ts) == DateTime(ts.t)

(***************************************************************************)
(* list.sort(key = ...): the keys are tuples of integers, compared         *)
(* lexicographically; the sort is stable.                                  *)
(***************************************************************************)
\* tuple comparison a < b
LexLess(a, b) ==
    \/ \E i \in 1..Len(a) :
          /\ i <= Len(b)
          /\ a[i] < b[i]
          /\ \A j \in 1..(i - 1) : a[j] = b[j]
    \/ /\ Len(a) < Len(b)
       /\ \A j \in 1..Len(a) : a[j] = b[j]

\* the smallest key of a non-empty set of keys
MinKey(K) == CHOOSE k \in K : \A j \in K : ~LexLess(j, k)

\* the keys of K in ascending order
RECURSIVE Ascending(_)
Ascending(K) ==
    IF K = {} THEN << >> ELSE <<MinKey(K)>> \o Ascending(K \ {MinKey(K)})

\* the items whose key is k, in the order they have in list
WithKey(list, keys, k) ==
    LET at == SelectSeq([i \in 1..Len(list) |-> i], LAMBDA i : keys[i] = k)
    IN  [j \in 1..Len(at) |-> list[at[j]]]

RECURSIVE Concat(_, _, _)
Concat(list, keys, order) ==
    IF order = << >> THEN << >>
    ELSE WithKey(list, keys, Head(order)) \o Concat(list, keys, Tail(order))

\* the list after list.sort(key=...), keys[i] being the key of list[i]: the
\* items in ascending order of their keys, items of equal keys in the order
\* they had before (the sort is stable)
StableSort(list, keys) ==
    Concat(list, keys, Ascending({keys[i] : i \in 1..Len(list)}))

(***************************************************************************)
(* select_resource                                                         *)
(***************************************************************************)
\* the keys with the high branch ordering by cost first, as the low branch does
ResourceKey_mut(r, severity) ==
    IF severity = "medium" THEN <<r.operational_cost + 50 * r.deployment_minutes>>
    ELSE <<r.operational_cost, r.deployment_minutes>>

\* the key lambda of the branch taken for the severity
ResourceKey(r, severity) ==
    IF severity = "high" THEN <<r.deployment_minutes, r.operational_cost>>
    ELSE IF severity = "low" THEN <<r.operational_cost, r.deployment_minutes>>
    ELSE IF severity = "medium" THEN <<r.operational_cost + 50 * r.deployment_minutes>>
    ELSE <<r.operational_cost, r.deployment_minutes>>

\* select_resource sorts the caller's list in place and returns its element 0:
\* list is the caller's list after the call, selected the unit returned
select_resource(available, severity) ==
    LET sorted == StableSort(available,
                      [i \in 1..Len(available) |-> ResourceKey(available[i], severity)])
    IN  [list |-> sorted, selected |-> sorted[1]]

\* the removal left out: the list as it is
Remove_mut(list, x) == list

\* list.remove(x): the list without its first element equal to x
RECURSIVE Remove(_, _)
Remove(list, x) ==
    IF list = << >> THEN << >>
    ELSE IF Head(list) = x THEN Tail(list)
    ELSE <<Head(list)>> \o Remove(Tail(list), x)

(***************************************************************************)
(* sort_data                                                               *)
(***************************************************************************)
\* the ranks with a default rank behind low for any other severity
severity_order_mut == [s \in Severities \cup {UnknownSeverity} |->
    CASE s = "high" -> 1 [] s = "medium" -> 2 [] s = "low" -> 3 [] OTHER -> 4]

severity_order == [s \in Severities |->
    CASE s = "high" -> 1 [] s = "medium" -> 2 [] s = "low" -> 3]

\* the key lambda with a parser that takes a timestamp in any format
SortKeyError_mut(x) ==
    IF x.timestamp.kind = Absent THEN "KeyError"
    ELSE IF x.timestamp.kind \notin {"str", "badstr"} THEN "TypeError"
    ELSE IF x.severity \notin DOMAIN severity_order THEN "KeyError"
    ELSE "none"

\* the exception the key lambda raises on row x, or "none": the timestamp is
\* read and parsed first, then the severity is read and looked up as it
\* stands in the row
SortKeyError(x) ==
    IF x.timestamp.kind = Absent THEN "KeyError"
    ELSE IF StrptimeError(x.timestamp) # "none" THEN StrptimeError(x.timestamp)
    ELSE IF x.severity \notin DOMAIN severity_order THEN "KeyError"
    ELSE "none"

\* the key without the severity rank
SortKey_mut(x) == <<x.timestamp.t>>

SortKey(x) == <<x.timestamp.t, severity_order[x.severity]>>

\* the keys are computed row by row before anything moves: the first row
\* whose key raises ends the sort and leaves the list as it was
sort_data(wildfire_data) ==
    LET bad == {i \in 1..Len(wildfire_data) : SortKeyError(wildfire_data[i]) # "none"}
    IN  IF bad # {}
        THEN [exc  |-> SortKeyError(wildfire_data[CHOOSE i \in bad : \A j \in bad : i <= j]),
              list |-> wildfire_data]
        ELSE [exc  |-> "none",
              list |-> StableSort(wildfire_data,
                          [i \in 1..Len(wildfire_data) |-> SortKey(wildfire_data[i])])]

(***************************************************************************)
(* The caller's input                                                      *)
(***************************************************************************)
\* the rows with a timestamp in DATE_FORMAT and a known severity in lower case
ValidKinds == [timestamp : {TimeStr(t) : t \in 1..MaxTime}, severity : Severities]

\* rows the simulation has to refuse: a timestamp in another format, no
\* timestamp, no severity, an unknown severity
MalformedKinds ==
    {[timestamp |-> BadTimeStr(1), severity |-> "low"],
     [timestamp |-> AbsentTime,    severity |-> "high"],
     [timestamp |-> TimeStr(1),    severity |-> Absent],
     [timestamp |-> TimeStr(1),    severity |-> UnknownSeverity]}

\* a row as csv_to_json delivers it
Kinds ==
    [timestamp : {TimeStr(t) : t \in 1..MaxTime}, severity : SeverityStrings]
    \cup MalformedKinds

\* the sizes of the block of equal rows of a bulk input, around the pool size
BulkSizes == {PoolSize - 1, PoolSize, PoolSize + 2}

SeqsUpTo(S, n) == UNION {[1..m -> S] : m \in 0..n}

\* short inputs of arbitrary rows, and inputs long enough to exhaust the pool:
\* a block of equal rows with a few arbitrary rows before or behind it
InputKinds ==
    SeqsUpTo(Kinds, MaxLen)
    \cup {h \o Repeat(k, n) : h \in SeqsUpTo(Kinds, MaxHead), k \in ValidKinds, n \in BulkSizes}
    \cup {Repeat(k, n) \o h : h \in SeqsUpTo(Kinds, MaxHead), k \in ValidKinds, n \in BulkSizes}

\* pos is the identity of the row: its 1-based position in the list the caller
\* passes in (the dict objects move when the list is sorted, pos moves with them)
MkInput(kinds) ==
    [i \in 1..Len(kinds) |->
        [timestamp |-> kinds[i].timestamp, severity |-> kinds[i].severity, pos |-> i]]

(***************************************************************************)
(* State                                                                   *)
(***************************************************************************)
VARIABLES
    input,                   \* the rows as the caller built them (never changes)
    wildfire_json,           \* the caller's list object, mutated by the calls
    resource_pool,           \* the module-level pool
    pc,                      \* "idle", "loop", "done" or "error"
    calls,                   \* number of calls of simulate_deployment started
    results,                 \* what each finished call returned or raised
    \* the locals of the running (or last successful) call
    total_operational_cost,
    total_damage_cost,
    addressed_count,
    missed_count,
    addressed_by_severity,
    missed_by_severity,
    allowed_low_misses,
    low_missed_count,
    available_resources,
    incident_logs,
    idx,                     \* number of loop iterations finished
    \* the web API of main.py
    fs,                      \* the file current_wildfiredata.csv on disk
    req                      \* the POST /simulate/ requests and their handlers

locals ==
    <<total_operational_cost, total_damage_cost, addressed_count, missed_count,
      addressed_by_severity, missed_by_severity, allowed_low_misses,
      low_missed_count, available_resources, incident_logs, idx>>

web == <<fs, req>>

vars == <<input, wildfire_json, resource_pool, pc, calls, results, locals, web>>

\* no file at the path
NoFile == [exists |-> FALSE, content |-> << >>]

ZeroBySeverity == [s \in Severities |-> 0]

Init ==
    /\ input \in {MkInput(k) : k \in InputKinds}
    /\ wildfire_json = input
    /\ resource_pool = InitialPool
    /\ pc = "idle"
    /\ calls = 0
    /\ results = << >>
    /\ total_operational_cost = 0
    /\ total_damage_cost = 0
    /\ addressed_count = 0
    /\ missed_count = 0
    /\ addressed_by_severity = ZeroBySeverity
    /\ missed_by_severity = ZeroBySeverity
    /\ allowed_low_misses = 0
    /\ low_missed_count = 0
    /\ available_resources = << >>
    /\ incident_logs = << >>
    /\ idx = 0
    /\ fs = NoFile
    /\ req = << >>

(***************************************************************************)
(* simulate_deployment                                                     *)
(***************************************************************************)
Max(a, b) == IF a >= b THEN a ELSE b

\* the shortfall taken one too small
AllowedLowMisses_mut(n_events, n_pool) == Max(0, n_events - n_pool - 1)

\* allowed_low_misses, computed once before the loop
AllowedLowMisses(n_events, n_pool) == Max(0, n_events - n_pool)

\* the test with <= for <
LowMissPolicy_mut(severity, n_missed, n_allowed) ==
    severity = "low" /\ n_missed <= n_allowed

\* the test of the intentional miss policy
LowMissPolicy(severity, n_missed, n_allowed) ==
    severity = "low" /\ n_missed < n_allowed

\* the log_entry dict as created at the top of the loop body
NewLogEntry(i, event_time, severity) ==
    [event_index      |-> i,
     timestamp        |-> event_time,
     severity         |-> severity,
     action           |-> "None",
     miss_no          |-> 0,
     resource         |-> "None",
     operational_cost |-> 0]

\* what a call hands back: the exception raised ("none" if it returned) and
\* the returned pair, if any
Raised(exc) == [exc |-> exc, returned |-> << >>]
Returned(report, logs) == [exc |-> "none", returned |-> <<[report |-> report, logs |-> logs]>>]

\* entry of the call up to the for loop: sort_data, then the locals
Enter ==
    \E s \in {sort_data(wildfire_json)} :
    /\ calls' = calls + 1
    /\ UNCHANGED <<input, resource_pool, web>>
    /\ IF s.exc # "none"
       THEN /\ pc' = "error"
            /\ results' = Append(results, Raised(s.exc))
            /\ UNCHANGED <<wildfire_json, locals>>
       ELSE /\ pc' = "loop"
            /\ wildfire_json' = s.list
            /\ total_operational_cost' = 0
            /\ total_damage_cost' = 0
            /\ addressed_count' = 0
            /\ missed_count' = 0
            /\ addressed_by_severity' = ZeroBySeverity
            /\ missed_by_severity' = ZeroBySeverity
            /\ allowed_low_misses' = AllowedLowMisses(Len(s.list), Len(resource_pool))
            /\ low_missed_count' = 0
            /\ available_resources' = resource_pool
            /\ incident_logs' = << >>
            /\ idx' = 0
            /\ UNCHANGED results

\* the first call on the caller's list
Call ==
    /\ pc = "idle"
    /\ Enter

\* a further call on the same list object, after the previous call has ended
CallAgain ==
    /\ pc \in {"done", "error"}
    /\ calls < MaxCalls
    /\ Enter

\* the event of the current iteration and the names bound at the top of the body
event == wildfire_json[idx + 1]
event_time == strptime(event.timestamp)
event_severity == Lower(event.severity)
log_entry == NewLogEntry(idx, event_time, event_severity)

\* the top of the loop body, common to the three branches; after sort_data
\* has passed every timestamp is a str, so strptime cannot raise here
LoopTop ==
    /\ pc = "loop"
    /\ idx < Len(wildfire_json)
    /\ StrptimeError(event.timestamp) = "none"
    /\ wildfire_json' = [wildfire_json EXCEPT ![idx + 1].timestamp = event_time]
    /\ idx' = idx + 1
    /\ UNCHANGED <<input, pc, calls, results, allowed_low_misses, web>>

\* available_resources is a copy of resource_pool, another list object: what
\* the loop does to the copy leaves the module-level list as it is
ModulePool_mut(pool, available) == available

ModulePool(pool, available) == pool

PoolFrame == resource_pool' = ModulePool(resource_pool, available_resources')

\* the branch taking the first unit of the pool copy along
MissedAllowedLow_takes_unit ==
    /\ LoopTop
    /\ LowMissPolicy(event_severity, low_missed_count, allowed_low_misses)
    /\ low_missed_count' = low_missed_count + 1
    /\ missed_count' = missed_count + 1
    /\ total_damage_cost' = total_damage_cost + damage_costs[event_severity]
    /\ missed_by_severity' = [missed_by_severity EXCEPT ![event_severity] = @ + 1]
    /\ incident_logs' = Append(incident_logs,
            [log_entry EXCEPT !.action = "Missed (allowed low miss)",
                              !.miss_no = low_missed_count + 1])
    /\ available_resources' =
           IF available_resources = << >> THEN << >> ELSE Tail(available_resources)
    /\ UNCHANGED <<total_operational_cost, addressed_count, addressed_by_severity>>
    /\ PoolFrame

\* the branch without its continue: the entry is appended again at the end of the body
MissedAllowedLow_mut ==
    /\ LoopTop
    /\ LowMissPolicy(event_severity, low_missed_count, allowed_low_misses)
    /\ low_missed_count' = low_missed_count + 1
    /\ missed_count' = missed_count + 1
    /\ total_damage_cost' = total_damage_cost + damage_costs[event_severity]
    /\ missed_by_severity' = [missed_by_severity EXCEPT ![event_severity] = @ + 1]
    /\ \E e \in {[log_entry EXCEPT !.action = "Missed (allowed low miss)",
                                   !.miss_no = low_missed_count + 1]} :
          incident_logs' = Append(Append(incident_logs, e), e)
    /\ UNCHANGED <<total_operational_cost, addressed_count, addressed_by_severity,
                   available_resources>>
    /\ PoolFrame

\* intentional miss of a low severity event
MissedAllowedLow ==
    /\ LoopTop
    /\ LowMissPolicy(event_severity, low_missed_count, allowed_low_misses)
    /\ low_missed_count' = low_missed_count + 1
    /\ missed_count' = missed_count + 1
    /\ total_damage_cost' = total_damage_cost + damage_costs[event_severity]
    /\ missed_by_severity' = [missed_by_severity EXCEPT ![event_severity] = @ + 1]
    /\ incident_logs' = Append(incident_logs,
            [log_entry EXCEPT !.action = "Missed (allowed low miss)",
                              !.miss_no = low_missed_count + 1])
    /\ UNCHANGED <<total_operational_cost, addressed_count, addressed_by_severity,
                   available_resources>>
    /\ PoolFrame

\* the branch without the increment of missed_by_severity
MissedNoResources_mut ==
    /\ LoopTop
    /\ ~LowMissPolicy(event_severity, low_missed_count, allowed_low_misses)
    /\ available_resources = << >>
    /\ missed_count' = missed_count + 1
    /\ total_damage_cost' = total_damage_cost + damage_costs[event_severity]
    /\ incident_logs' = Append(incident_logs,
            [log_entry EXCEPT !.action = "Missed (no resources)"])
    /\ UNCHANGED <<total_operational_cost, addressed_count, addressed_by_severity,
                   missed_by_severity, low_missed_count, available_resources>>
    /\ PoolFrame

\* no unit left
MissedNoResources ==
    /\ LoopTop
    /\ ~LowMissPolicy(event_severity, low_missed_count, allowed_low_misses)
    /\ available_resources = << >>
    /\ missed_count' = missed_count + 1
    /\ total_damage_cost' = total_damage_cost + damage_costs[event_severity]
    /\ missed_by_severity' = [missed_by_severity EXCEPT ![event_severity] = @ + 1]
    /\ incident_logs' = Append(incident_logs,
            [log_entry EXCEPT !.action = "Missed (no resources)"])
    /\ UNCHANGED <<total_operational_cost, addressed_count, addressed_by_severity,
                   low_missed_count, available_resources>>
    /\ PoolFrame

\* a unit is selected and removed from the pool copy
Assigned ==
    /\ LoopTop
    /\ ~LowMissPolicy(event_severity, low_missed_count, allowed_low_misses)
    /\ available_resources # << >>
    /\ \E call \in {select_resource(available_resources, event_severity)} :
       LET selected == call.selected IN
        /\ available_resources' = Remove(call.list, selected)
        /\ total_operational_cost' = total_operational_cost + selected.operational_cost
        /\ addressed_count' = addressed_count + 1
        /\ addressed_by_severity' = [addressed_by_severity EXCEPT ![event_severity] = @ + 1]
        /\ incident_logs' = Append(incident_logs,
               [log_entry EXCEPT !.action = "Assigned",
                                 !.resource = selected.resource_type,
                                 !.operational_cost = selected.operational_cost])
    /\ UNCHANGED <<total_damage_cost, missed_count, missed_by_severity, low_missed_count>>
    /\ PoolFrame

\* the report dict built after the loop
Report ==
    [fires_addressed        |-> addressed_by_severity,
     fires_delayed          |-> missed_by_severity,
     operational_costs      |-> total_operational_cost,
     estimated_damage_costs |-> total_damage_cost]

Return ==
    /\ pc = "loop"
    /\ idx = Len(wildfire_json)
    /\ pc' = "done"
    /\ results' = Append(results, Returned(Report, incident_logs))
    /\ UNCHANGED <<input, wildfire_json, resource_pool, calls, locals, web>>

Next ==
    \/ Call
    \/ CallAgain
    \/ MissedAllowedLow
    \/ MissedNoResources
    \/ Assigned
    \/ Return

Spec == Init /\ [][Next]_vars

(***************************************************************************)
(* samp.py: simulate_deployment(df_events, allowed_low_misses = 4)         *)
(*                                                                         *)
(* The catalog, the pool and select_resource of samp.py are those of       *)
(* current_optimise.py, line for line.  df_events is a DataFrame: its rows *)
(* are wildfire_json, pos - 1 is the index label of a row.                 *)
(***************************************************************************)
\* the default of the parameter allowed_low_misses
DefaultAllowedLowMisses == 4

\* the largest explicit argument tried besides the default
MaxAllowedArg == 1

\* the values passed for allowed_low_misses
SampArgs == 0..MaxAllowedArg \cup {DefaultAllowedLowMisses}

\* the rows of the DataFrame: a parsable timestamp, a severity in any case
SampKinds == [timestamp : {TimeStr(t) : t \in 1..MaxTime}, severity : SeverityStrings]

\* short frames of arbitrary rows, and frames longer than the pool: a few
\* arbitrary rows followed by a block of equal rows
SampInputKinds ==
    SeqsUpTo(SampKinds, MaxLen)
    \cup {h \o Repeat(k, PoolSize + 2) : h \in SeqsUpTo(SampKinds, MaxHead), k \in ValidKinds}

\* severity_order of samp.py
samp_severity_order == [s \in Severities |->
    CASE s = "high" -> 0 [] s = "medium" -> 1 [] s = "low" -> 2]

\* col.map(severity_order): a severity that is not a key maps to NaN, which
\* sort_values puts last (na_position = "last")
SampRank(severity) ==
    IF severity \in DOMAIN samp_severity_order THEN samp_severity_order[severity] ELSE 3

\* the sort key of a row: by = ["timestamp", "severity"]
SampSortKey(x) == <<x.timestamp.t, SampRank(x.severity)>>

\* pd.to_datetime on the timestamp column, then sort_values(inplace = True);
\* rows of equal keys keep their order
SampSorted(rows) ==
    LET converted == [i \in 1..Len(rows) |->
                         [rows[i] EXCEPT !.timestamp = DateTime(rows[i].timestamp.t)]]
    IN  StableSort(converted, [i \in 1..Len(rows) |-> SampSortKey(converted[i])])

SampInit ==
    /\ input \in {MkInput(k) : k \in SampInputKinds}
    /\ wildfire_json = input
    /\ resource_pool = InitialPool
    /\ pc = "idle"
    /\ calls = 0
    /\ results = << >>
    /\ total_operational_cost = 0
    /\ total_damage_cost = 0
    /\ addressed_count = 0
    /\ missed_count = 0
    /\ addressed_by_severity = ZeroBySeverity
    /\ missed_by_severity = ZeroBySeverity
    /\ allowed_low_misses = DefaultAllowedLowMisses
    /\ low_missed_count = 0
    /\ available_resources = << >>
    /\ incident_logs = << >>
    /\ idx = 0
    /\ fs = NoFile
    /\ req = << >>

\* the call, with or without the argument, up to the for loop
SampCall ==
    /\ pc = "idle"
    /\ \E n \in SampArgs : allowed_low_misses' = n
    /\ \E s \in {SampSorted(wildfire_json)} : wildfire_json' = s
    /\ pc' = "loop"
    /\ calls' = calls + 1
    /\ total_operational_cost' = 0
    /\ total_damage_cost' = 0
    /\ addressed_count' = 0
    /\ missed_count' = 0
    /\ addressed_by_severity' = ZeroBySeverity
    /\ missed_by_severity' = ZeroBySeverity
    /\ low_missed_count' = 0
    /\ available_resources' = resource_pool
    /\ incident_logs' = << >>
    /\ idx' = 0
    /\ UNCHANGED <<input, resource_pool, results, web>>

\* the names bound at the top of the body of the iterrows loop
samp_severity == Lower(event.severity)
samp_log_entry == NewLogEntry(event.pos - 1, event.timestamp, samp_severity)

SampLoopTop ==
    /\ pc = "loop"
    /\ idx < Len(wildfire_json)
    /\ idx' = idx + 1
    /\ UNCHANGED <<input, wildfire_json, resource_pool, pc, calls, results,
                   allowed_low_misses, web>>

\* the test with <= for <
SampLowMissPolicy_mut(severity, n_missed, n_allowed) ==
    severity = "low" /\ n_missed <= n_allowed

\* the test of the intentional miss policy
SampLowMissPolicy(severity, n_missed, n_allowed) ==
    severity = "low" /\ n_missed < n_allowed

SampMissedAllowedLow ==
    /\ SampLoopTop
    /\ SampLowMissPolicy(samp_severity, low_missed_count, allowed_low_misses)
    /\ low_missed_count' = low_missed_count + 1
    /\ missed_count' = missed_count + 1
    /\ total_damage_cost' = total_damage_cost + damage_costs[samp_severity]
    /\ missed_by_severity' = [missed_by_severity EXCEPT ![samp_severity] = @ + 1]
    /\ incident_logs' = Append(incident_logs,
            [samp_log_entry EXCEPT !.action = "Missed (allowed low miss)",
                                   !.miss_no = low_missed_count + 1])
    /\ UNCHANGED <<total_operational_cost, addressed_count, addressed_by_severity,
                   available_resources>>

SampMissedNoResources ==
    /\ SampLoopTop
    /\ ~SampLowMissPolicy(samp_severity, low_missed_count, allowed_low_misses)
    /\ available_resources = << >>
    /\ missed_count' = missed_count + 1
    /\ total_damage_cost' = total_damage_cost + damage_costs[samp_severity]
    /\ missed_by_severity' = [missed_by_severity EXCEPT ![samp_severity] = @ + 1]
    /\ incident_logs' = Append(incident_logs,
            [samp_log_entry EXCEPT !.action = "Missed (no resources)"])
    /\ UNCHANGED <<total_operational_cost, addressed_count, addressed_by_severity,
                   low_missed_count, available_resources>>

SampAssigned ==
    /\ SampLoopTop
    /\ ~SampLowMissPolicy(samp_severity, low_missed_count, allowed_low_misses)
    /\ available_resources # << >>
    /\ \E call \in {select_resource(available_resources, samp_severity)} :
       LET selected == call.selected IN
        /\ available_resources' = Remove(call.list, selected)
        /\ total_operational_cost' = total_operational_cost + selected.operational_cost
        /\ addressed_count' = addressed_count + 1
        /\ addressed_by_severity' = [addressed_by_severity EXCEPT ![samp_severity] = @ + 1]
        /\ incident_logs' = Append(incident_logs,
               [samp_log_entry EXCEPT !.action = "Assigned",
                                      !.resource = selected.resource_type,
                                      !.operational_cost = selected.operational_cost])
    /\ UNCHANGED <<total_damage_cost, missed_count, missed_by_severity, low_missed_count>>

\* the report dict of samp.py
SampReport ==
    [fires_addressed        |-> addressed_count,
     fires_delayed          |-> missed_count,
     operational_costs      |-> total_operational_cost,
     estimated_damage_costs |-> total_damage_cost,
     addressed              |-> addressed_by_severity,
     missed                 |-> missed_by_severity]

SampReturn ==
    /\ pc = "loop"
    /\ idx = Len(wildfire_json)
    /\ pc' = "done"
    /\ results' = Append(results, Returned(SampReport, incident_logs))
    /\ UNCHANGED <<input, wildfire_json, resource_pool, calls, locals, web>>

SampNext ==
    \/ SampCall
    \/ SampMissedAllowedLow
    \/ SampMissedNoResources
    \/ SampAssigned
    \/ SampReturn

SampSpec == SampInit /\ [][SampNext]_vars

(***************************************************************************)
(* main.py: the handler of POST /simulate/                                 *)
(*                                                                         *)
(* The handlers are coroutines of one event loop: a handler runs until it  *)
(* suspends at "await file.read()" or returns, and only then may another   *)
(* handler run.  All requests write to the one path                        *)
(* current_wildfiredata.csv.                                               *)
(***************************************************************************)
\* the number of requests
MaxRequests == 2

\* the largest length of an uploaded file, in bytes
MaxBytes == 2

Requests == 1..MaxRequests

Bytes == {"a", "b"}

\* the contents of the uploaded files
Uploads == UNION {[1..n -> Bytes] : n \in 1..MaxBytes}

\* the names bound at the top level of the module samp once it is imported
SampNames ==
    {"pd", "datetime", "resource_specs", "damage_costs", "resource_pool",
     "r_type", "spec", "_", "select_resource", "simulate_deployment",
     "print_incident_report"}

\* the simulation variables, which the handler leaves alone
sim == <<input, wildfire_json, resource_pool, pc, calls, results, locals>>

NoResponse == [kind |-> "none", body |-> "", result |-> << >>]

\* {"error": str(e)}
ErrorResponse(e) == [kind |-> "error", body |-> e, result |-> << >>]

\* {"message": "Simulation completed successfully", "report": ..., "logs": ...}:
\* result stands for the report and logs computed from the file content
MessageResponse(content) ==
    [kind |-> "message", body |-> "Simulation completed successfully", result |-> content]

ApiInit ==
    /\ input = << >>
    /\ wildfire_json = << >>
    /\ resource_pool = InitialPool
    /\ pc = "idle"
    /\ calls = 0
    /\ results = << >>
    /\ total_operational_cost = 0
    /\ total_damage_cost = 0
    /\ addressed_count = 0
    /\ missed_count = 0
    /\ addressed_by_severity = ZeroBySeverity
    /\ missed_by_severity = ZeroBySeverity
    /\ allowed_low_misses = 0
    /\ low_missed_count = 0
    /\ available_resources = << >>
    /\ incident_logs = << >>
    /\ idx = 0
    /\ fs = NoFile
    /\ req \in [Requests -> [at : {"new"}, upload : Uploads, opened : {FALSE},
                             on_disk : {<< >>}, response : {NoResponse}]]

\* open(file_location, "wb"): the file is created or truncated; the handler
\* then suspends at await file.read() with the file open at offset 0
ApiOpen(r) ==
    /\ req[r].at = "new"
    /\ fs' = [exists |-> TRUE, content |-> << >>]
    /\ req' = [req EXCEPT ![r].at = "reading", ![r].opened = TRUE]
    /\ UNCHANGED sim

\* what the file holds after data has been written at offset 0
WriteAt0(content, data) == data \o SubSeq(content, Len(data) + 1, Len(content))

\* the handler resumes with the uploaded bytes: f.write(content), the file is
\* closed, samp.run_simulation is looked up and called, the response returned
ApiResume(r) ==
    /\ req[r].at = "reading"
    /\ \E written \in {WriteAt0(fs.content, req[r].upload)} :
          IF "run_simulation" \in SampNames
          THEN /\ fs' = NoFile
               /\ req' = [req EXCEPT ![r].at = "returned", ![r].opened = FALSE,
                                     ![r].on_disk = written,
                                     ![r].response = MessageResponse(written)]
          ELSE /\ fs' = [exists |-> TRUE, content |-> written]
               /\ req' = [req EXCEPT ![r].at = "returned", ![r].opened = FALSE,
                                     ![r].on_disk = written,
                                     ![r].response = ErrorResponse("AttributeError")]
    /\ UNCHANGED sim

ApiNext ==
    \/ \E r \in Requests : ApiOpen(r)
    \/ \E r \in Requests : ApiResume(r)

ApiSpec == ApiInit /\ [][ApiNext]_vars

(***************************************************************************)
(* Vocabulary of the properties                                            *)
(***************************************************************************)
\* a call has passed sort_data: its locals exist
InRun == pc \in {"loop", "done"}

\* the indices of the entries of a log that satisfy Test
Where(log, Test(_)) == {k \in 1..Len(log) : Test(log[k])}

IsAssigned(e) == e.action = "Assigned"
IsLowMiss(e) == e.action = "Missed (allowed low miss)"
IsNoResources(e) == e.action = "Missed (no resources)"
IsLow(e) == e.severity = "low"

\* the input rows whose severity, in lower case, is s
RowsOfSeverity(s) == {i \in 1..Len(input) : Lower(input[i].severity) = s}

\* the input position (1-based) of the row the k-th entry of the log is about
PosOf(k) == wildfire_json[k].pos

(***************************************************************************)
(* C1: allowed_low_misses is max(0, incident_count - 28) throughout the    *)
(* run; the policy-missed outcomes never outnumber it, number exactly that *)
(* many at the end when the input has at least that many low incidents,    *)
(* and are exactly the first low incidents in processing order, numbered   *)
(* 1, 2, ...                                                               *)
(***************************************************************************)
C1_LowMissPolicy ==
    InRun =>
        /\ allowed_low_misses = Max(0, Len(input) - 28)
        /\ Cardinality(Where(incident_logs, IsLowMiss)) <= allowed_low_misses
        /\ Cardinality(Where(incident_logs, IsLowMiss)) = low_missed_count
        /\ pc = "done" =>
            /\ Cardinality(RowsOfSeverity("low")) >= allowed_low_misses
                 => Cardinality(Where(incident_logs, IsLowMiss)) = allowed_low_misses
            /\ \A k \in 1..Len(incident_logs) :
                 LET lows == Cardinality(Where(SubSeq(incident_logs, 1, k), IsLow))
                 IN  /\ IsLowMiss(incident_logs[k])
                          <=> (IsLow(incident_logs[k]) /\ lows <= allowed_low_misses)
                     /\ IsLowMiss(incident_logs[k]) => incident_logs[k].miss_no = lows

\* 30 low incidents against the 28 units: two are missed by policy, the third is served
C1_Witness ==
    /\ pc = "done"
    /\ Len(input) = 30
    /\ \A i \in 1..Len(input) : input[i].severity = "low"
    /\ IsLowMiss(incident_logs[1]) /\ IsLowMiss(incident_logs[2])
    /\ IsAssigned(incident_logs[3])

(***************************************************************************)
(* C2: at every step of a run, units left + incidents assigned = 28; the   *)
(* addressed count is the number of units removed and at most 28; for each *)
(* resource type, units of the type left + incidents assigned the type =   *)
(* the catalog count of the type, and no step of a run adds a unit.        *)
(***************************************************************************)
UnitsOfType(r) == {i \in 1..Len(available_resources) : available_resources[i].resource_type = r}
AssignedOfType(r) == {k \in 1..Len(incident_logs) : incident_logs[k].resource = r}
TypeNames == {ResourceTypes[i] : i \in 1..Len(ResourceTypes)}

C2_State ==
    InRun =>
        /\ Len(available_resources) + Cardinality(Where(incident_logs, IsAssigned)) = 28
        /\ addressed_count = Cardinality(Where(incident_logs, IsAssigned))
        /\ addressed_count = 28 - Len(available_resources)
        /\ addressed_count <= 28
        /\ \A r \in TypeNames :
             /\ Cardinality(AssignedOfType(r)) <= resource_specs[r].count
             /\ Cardinality(UnitsOfType(r)) + Cardinality(AssignedOfType(r))
                    = resource_specs[r].count

C2_Step ==
    (pc = "loop") =>
        \A r \in TypeNames :
            Cardinality({i \in 1..Len(available_resources') :
                            available_resources'[i].resource_type = r})
                <= Cardinality(UnitsOfType(r))

C2_PoolConservation == [](C2_State) /\ [][C2_Step]_vars

\* a run that has consumed units of more than one type and still holds some
C2_Witness ==
    /\ pc = "loop"
    /\ Cardinality(AssignedOfType("Smoke Jumpers")) = 5
    /\ Cardinality(AssignedOfType("Helicopters")) >= 1
    /\ available_resources # << >>

(***************************************************************************)
(* C3: one log entry per incident: after k iterations the log has k        *)
(* entries, each with one of the three outcomes; an iteration appends      *)
(* exactly one entry and leaves the earlier entries as they were; the      *)
(* return leaves the log alone, so the run ends with                       *)
(* len(incident_logs) = len(incidents).                                    *)
(***************************************************************************)
C3_State ==
    InRun =>
        /\ Len(incident_logs) = idx
        /\ \A k \in 1..Len(incident_logs) :
             \/ IsAssigned(incident_logs[k])
             \/ IsLowMiss(incident_logs[k])
             \/ IsNoResources(incident_logs[k])
        /\ pc = "done" => Len(incident_logs) = Len(input)

C3_Step ==
    (pc = "loop") =>
        \/ /\ pc' = "done"
           /\ incident_logs' = incident_logs
        \/ /\ pc' = "loop"
           /\ Len(incident_logs') = Len(incident_logs) + 1
           /\ SubSeq(incident_logs', 1, Len(incident_logs)) = incident_logs

C3_OneEntryPerIncident == [](C3_State) /\ [][C3_Step]_vars

\* a finished run whose log holds all three outcomes
C3_Witness ==
    /\ pc = "done"
    /\ Len(incident_logs) = Len(input)
    /\ Where(incident_logs, IsAssigned) # {}
    /\ Where(incident_logs, IsLowMiss) # {}
    /\ Where(incident_logs, IsNoResources) # {}

(***************************************************************************)
(* C4: the k-th log entry is about the k-th incident in the order:         *)
(* ascending timestamp, then high before medium before low, then input     *)
(* order.                                                                  *)
(***************************************************************************)
Rank(s) == CASE s = "high" -> 1 [] s = "medium" -> 2 [] s = "low" -> 3

\* entry a comes strictly before entry b in that order
Before(a, pa, b, pb) ==
    \/ a.timestamp.t < b.timestamp.t
    \/ /\ a.timestamp.t = b.timestamp.t
       /\ Rank(a.severity) < Rank(b.severity)
    \/ /\ a.timestamp.t = b.timestamp.t
       /\ a.severity = b.severity
       /\ pa < pb

C4_LogOrder ==
    InRun =>
        /\ {PosOf(k) : k \in 1..Len(wildfire_json)} = 1..Len(input)
        /\ \A k \in 1..Len(incident_logs) :
             /\ incident_logs[k].timestamp.t = input[PosOf(k)].timestamp.t
             /\ incident_logs[k].severity = Lower(input[PosOf(k)].severity)
        /\ \A k \in 1..(Len(incident_logs) - 1) :
             Before(incident_logs[k], PosOf(k), incident_logs[k + 1], PosOf(k + 1))

\* a finished run on an input that was not in order, with a tie on timestamp
\* broken by severity and a tie on both broken by input order
C4_Witness ==
    /\ pc = "done"
    /\ \E k \in 1..(Len(incident_logs) - 1) : PosOf(k) > PosOf(k + 1)
    /\ \E k \in 1..(Len(incident_logs) - 1) :
          /\ incident_logs[k].timestamp.t = incident_logs[k + 1].timestamp.t
          /\ incident_logs[k].severity # incident_logs[k + 1].severity
    /\ \E k \in 1..(Len(incident_logs) - 1) :
          /\ incident_logs[k].timestamp.t = incident_logs[k + 1].timestamp.t
          /\ incident_logs[k].severity = incident_logs[k + 1].severity

(***************************************************************************)
(* C5: the unit an Assigned incident gets is a minimum, over the units     *)
(* available before the step, of (deployment_minutes, operational_cost)    *)
(* for high, (operational_cost, deployment_minutes) for low and            *)
(* operational_cost + 50 * deployment_minutes for medium, and it is the    *)
(* unit that leaves the pool; a single high incident gets a Smoke Jumpers  *)
(* unit and a single low incident a Fire Engines unit.                     *)
(***************************************************************************)
\* unit a is at least as good as unit b for the severity
AtLeastAsGood(severity, a, b) ==
    CASE severity = "high" ->
            \/ a.deployment_minutes < b.deployment_minutes
            \/ /\ a.deployment_minutes = b.deployment_minutes
               /\ a.operational_cost <= b.operational_cost
      [] severity = "low" ->
            \/ a.operational_cost < b.operational_cost
            \/ /\ a.operational_cost = b.operational_cost
               /\ a.deployment_minutes <= b.deployment_minutes
      [] severity = "medium" ->
            a.operational_cost + 50 * a.deployment_minutes
                <= b.operational_cost + 50 * b.deployment_minutes

CountUnit(list, u) == Cardinality({i \in 1..Len(list) : list[i] = u})

C5_Step ==
    (pc = "loop" /\ Len(incident_logs') = Len(incident_logs) + 1
                 /\ IsAssigned(incident_logs'[Len(incident_logs')])) =>
        LET e == incident_logs'[Len(incident_logs')] IN
        \E i \in 1..Len(available_resources) :
            LET u == available_resources[i] IN
            /\ e.resource = u.resource_type
            /\ e.operational_cost = u.operational_cost
            /\ \A j \in 1..Len(available_resources) :
                   AtLeastAsGood(e.severity, u, available_resources[j])
            /\ Len(available_resources') = Len(available_resources) - 1
            /\ CountUnit(available_resources', u) = CountUnit(available_resources, u) - 1

C5_Single ==
    (pc = "done" /\ Len(input) = 1) =>
        /\ input[1].severity = "high" =>
              IsAssigned(incident_logs[1]) /\ incident_logs[1].resource = "Smoke Jumpers"
        /\ input[1].severity = "low" =>
              IsAssigned(incident_logs[1]) /\ incident_logs[1].resource = "Fire Engines"

C5_SelectionIsMinimum == [](C5_Single) /\ [][C5_Step]_vars

\* the cheapest and the fastest type have run out: a medium incident is served
\* by Ground Crews and a high one by Helicopters
C5_Witness ==
    /\ InRun
    /\ \E k \in 1..Len(incident_logs) :
          \/ incident_logs[k].severity = "medium" /\ incident_logs[k].resource = "Ground Crews"
          \/ incident_logs[k].severity = "high" /\ incident_logs[k].resource = "Helicopters"
    /\ \E k \in 1..Len(incident_logs) :
          incident_logs[k].severity = "low" /\ incident_logs[k].resource = "Fire Engines"

(***************************************************************************)
(* C6: the event_index of a log entry is the position (counted from 0) the *)
(* incident has in the input as the caller passed it, whatever position it *)
(* has after sorting.                                                      *)
(***************************************************************************)
C6_EventIndexIsInputPosition ==
    InRun => \A k \in 1..Len(incident_logs) :
                 incident_logs[k].event_index = PosOf(k) - 1

(***************************************************************************)
(* C7: at the end of a run, for each severity, fires_addressed +           *)
(* fires_delayed of the report is the number of input incidents of the     *)
(* severity.                                                               *)
(***************************************************************************)
\* the pair the running call has just returned
LastReturned == results[Len(results)].returned[1]

C7_CountsPerSeverity ==
    pc = "done" =>
        \A s \in {"low", "medium", "high"} :
            LastReturned.report.fires_addressed[s] + LastReturned.report.fires_delayed[s]
                = Cardinality(RowsOfSeverity(s))

\* a finished run with incidents both addressed and delayed
C7_Witness ==
    /\ pc = "done"
    /\ \E s \in Severities : LastReturned.report.fires_addressed[s] > 0
    /\ \E s \in Severities : LastReturned.report.fires_delayed[s] > 0
    /\ Cardinality({s \in Severities : RowsOfSeverity(s) # {}}) >= 2

(***************************************************************************)
(* C8: the returned summary is a fold over the returned log: operational   *)
(* costs summed over the Assigned entries, damage (low 50000, medium       *)
(* 100000, high 200000) summed over the missed entries of both kinds,      *)
(* counts per severity of Assigned and of missed entries; an entry has a   *)
(* resource iff it is Assigned, and operational_cost 0 unless Assigned.    *)
(***************************************************************************)
DamageOf(s) == CASE s = "low" -> 50000 [] s = "medium" -> 100000 [] s = "high" -> 200000

RECURSIVE FoldOperational(_, _)
FoldOperational(log, n) ==
    IF n = 0 THEN 0
    ELSE FoldOperational(log, n - 1)
         + (IF IsAssigned(log[n]) THEN log[n].operational_cost ELSE 0)

RECURSIVE FoldDamage(_, _)
FoldDamage(log, n) ==
    IF n = 0 THEN 0
    ELSE FoldDamage(log, n - 1)
         + (IF IsAssigned(log[n]) THEN 0 ELSE DamageOf(log[n].severity))

C8_SummaryIsFoldOfLog ==
    pc = "done" =>
        LET report == LastReturned.report
            log    == LastReturned.logs
        IN
        /\ report.operational_costs = FoldOperational(log, Len(log))
        /\ report.estimated_damage_costs = FoldDamage(log, Len(log))
        /\ \A s \in {"low", "medium", "high"} :
             /\ report.fires_addressed[s] =
                    Cardinality({k \in 1..Len(log) : log[k].severity = s /\ IsAssigned(log[k])})
             /\ report.fires_delayed[s] =
                    Cardinality({k \in 1..Len(log) : log[k].severity = s /\ ~IsAssigned(log[k])})
        /\ \A k \in 1..Len(log) :
             /\ IsAssigned(log[k]) \/ IsLowMiss(log[k]) \/ IsNoResources(log[k])
             /\ (log[k].resource # "None") <=> IsAssigned(log[k])
             /\ ~IsAssigned(log[k]) => log[k].operational_cost = 0

\* a returned log with Assigned entries and misses of both kinds
C8_Witness ==
    /\ pc = "done"
    /\ Where(LastReturned.logs, IsAssigned) # {}
    /\ Where(LastReturned.logs, IsLowMiss) # {}
    /\ Where(LastReturned.logs, IsNoResources) # {}
    /\ LastReturned.report.estimated_damage_costs > 0
    /\ LastReturned.report.operational_costs > 0

(***************************************************************************)
(* C9: an input whose severities are known values in any letter case is    *)
(* accepted: the call on it raises nothing, and each incident is logged    *)
(* under the lower-case form of its severity.                              *)
(***************************************************************************)
KnownInAnyCase ==
    \A i \in 1..Len(input) :
        /\ input[i].timestamp.kind = "str"
        /\ Lower(input[i].severity) \in {"low", "medium", "high"}

C9_SeverityCaseInsensitive ==
    KnownInAnyCase =>
        /\ Len(results) >= 1 => results[1].exc = "none"
        /\ InRun => \A k \in 1..Len(incident_logs) :
                        incident_logs[k].severity = Lower(input[PosOf(k)].severity)

(***************************************************************************)
(* C10: two calls in succession on the same input list end the same way:   *)
(* the same report and the same log.                                       *)
(***************************************************************************)
C10_SecondCallSameResult ==
    Len(results) >= 2 => results[2] = results[1]

(***************************************************************************)
(* C11: a call of select_resource on the non-empty list of available units *)
(* returns a unit of the list and leaves the list as it was: the same      *)
(* units in the same order.                                                *)
(***************************************************************************)
\* the loop is about to call select_resource
AboutToSelect ==
    /\ pc = "loop"
    /\ idx < Len(wildfire_json)
    /\ ~LowMissPolicy(event_severity, low_missed_count, allowed_low_misses)
    /\ available_resources # << >>

C11_SelectLeavesListAlone ==
    AboutToSelect =>
        LET call == select_resource(available_resources, event_severity) IN
        /\ \E i \in 1..Len(available_resources) : available_resources[i] = call.selected
        /\ call.list = available_resources

(***************************************************************************)
(* C12: an input with a row that lacks a required field or whose timestamp *)
(* is not in DATE_FORMAT is refused before the loop, wherever the row is:  *)
(* every call raises and returns nothing, no entry is logged, no unit      *)
(* leaves a pool and the caller's list is as it was.                       *)
(***************************************************************************)
Malformed(x) ==
    \/ x.timestamp.kind = Absent
    \/ x.timestamp.kind = "badstr"
    \/ x.severity = Absent

C12_MalformedInputRefused ==
    (\E i \in 1..Len(input) : Malformed(input[i])) =>
        /\ pc \in {"idle", "error"}
        /\ calls >= 1 => pc = "error"
        /\ \A c \in 1..Len(results) :
              results[c].exc # "none" /\ results[c].returned = << >>
        /\ incident_logs = << >>
        /\ idx = 0
        /\ available_resources = << >>
        /\ Len(resource_pool) = 28
        /\ wildfire_json = input

\* a refused call on an input whose only malformed row is the last of many
C12_Witness ==
    /\ pc = "error"
    /\ Len(input) > 28
    /\ Malformed(input[Len(input)])
    /\ \A i \in 1..(Len(input) - 1) : ~Malformed(input[i])

(***************************************************************************)
(* C13: an input with a row whose severity is not low, medium or high in   *)
(* any letter case is refused: every call raises and returns no report,    *)
(* and no unit is assigned to the row (nor to any other).                  *)
(***************************************************************************)
HasUnknownSeverity(x) ==
    x.severity # Absent /\ Lower(x.severity) \notin {"low", "medium", "high"}

C13_UnknownSeverityRefused ==
    (\E i \in 1..Len(input) : HasUnknownSeverity(input[i])) =>
        /\ ~InRun
        /\ calls >= 1 => pc = "error"
        /\ \A c \in 1..Len(results) :
              results[c].exc # "none" /\ results[c].returned = << >>
        /\ Where(incident_logs, IsAssigned) = {}
        /\ \A k \in 1..Len(incident_logs) : incident_logs[k].severity \in Severities

\* a refused call on an otherwise well-formed input that ends with such a row
C13_Witness ==
    /\ pc = "error"
    /\ results[1].exc = "KeyError"
    /\ Len(input) > 28
    /\ HasUnknownSeverity(input[Len(input)])
    /\ \A i \in 1..(Len(input) - 1) :
          ~HasUnknownSeverity(input[i]) /\ ~Malformed(input[i])

(***************************************************************************)
(* C16: a step that misses a low incident by policy leaves the pool copy,  *)
(* the module pool, the operational cost and the addressed counters as     *)
(* they were; it adds one to the low-miss counter and the missed counters  *)
(* (for low) and 50000 to the damage total, and appends the log entry.     *)
(***************************************************************************)
C16_Step ==
    (pc = "loop" /\ Len(incident_logs') = Len(incident_logs) + 1
                 /\ IsLowMiss(incident_logs'[Len(incident_logs')])) =>
        /\ available_resources' = available_resources
        /\ resource_pool' = resource_pool
        /\ total_operational_cost' = total_operational_cost
        /\ addressed_count' = addressed_count
        /\ addressed_by_severity' = addressed_by_severity
        /\ allowed_low_misses' = allowed_low_misses
        /\ low_missed_count' = low_missed_count + 1
        /\ missed_count' = missed_count + 1
        /\ missed_by_severity' = [missed_by_severity EXCEPT !["low"] = @ + 1]
        /\ total_damage_cost' = total_damage_cost + 50000

C16_LowMissLeavesPool == [][C16_Step]_vars

\* a policy miss has just happened in a run that had already used a unit
C16_Witness ==
    /\ pc = "loop"
    /\ incident_logs # << >>
    /\ IsLowMiss(incident_logs[Len(incident_logs)])
    /\ Where(incident_logs, IsAssigned) # {}
    /\ Len(available_resources) = 28 - Cardinality(Where(incident_logs, IsAssigned))

(***************************************************************************)
(* C18: when the input has at least max(0, incident_count - 28) low        *)
(* incidents, no incident is missed for want of resources and the run      *)
(* ends with min(28, incident_count) incidents addressed; with exactly 28  *)
(* incidents, none low, all are Assigned and the pool is empty exactly     *)
(* from the last incident on.                                              *)
(***************************************************************************)
Min(a, b) == IF a <= b THEN a ELSE b

C18_NoMissForWantOfResources ==
    InRun =>
        /\ Cardinality(RowsOfSeverity("low")) >= Max(0, Len(input) - 28) =>
              /\ Where(incident_logs, IsNoResources) = {}
              /\ pc = "done" =>
                    /\ addressed_count = Min(28, Len(input))
                    /\ Cardinality(Where(incident_logs, IsAssigned)) = Min(28, Len(input))
        /\ (Len(input) = 28 /\ RowsOfSeverity("low") = {}) =>
              /\ Where(incident_logs, IsAssigned) = 1..Len(incident_logs)
              /\ (available_resources = << >>) <=> (idx = 28)

\* 28 incidents, none low, all served: the pool is empty at the end
C18_Witness ==
    /\ pc = "done"
    /\ Len(input) = 28
    /\ RowsOfSeverity("low") = {}
    /\ Where(incident_logs, IsAssigned) = 1..28
    /\ available_resources = << >>

(***************************************************************************)
(* C19: resource_pool holds the 28 catalog units (5 Smoke Jumpers, 10 Fire *)
(* Engines, 3 Helicopters, 2 Tanker Planes, 8 Ground Crews) with their     *)
(* fields in every state, also in the middle of a run and after a run that *)
(* emptied its copy or that failed, and every run starts from those 28.    *)
(***************************************************************************)
CatalogPool ==
    Repeat([resource_type |-> "Smoke Jumpers", deployment_minutes |-> 30,  operational_cost |-> 5000],  5)
    \o Repeat([resource_type |-> "Fire Engines",  deployment_minutes |-> 60,  operational_cost |-> 2000],  10)
    \o Repeat([resource_type |-> "Helicopters",   deployment_minutes |-> 45,  operational_cost |-> 8000],  3)
    \o Repeat([resource_type |-> "Tanker Planes", deployment_minutes |-> 120, operational_cost |-> 15000], 2)
    \o Repeat([resource_type |-> "Ground Crews",  deployment_minutes |-> 90,  operational_cost |-> 3000],  8)

C19_State ==
    /\ resource_pool = CatalogPool
    /\ (pc = "loop" /\ idx = 0) => available_resources = CatalogPool

C19_Step == (pc # "loop" /\ pc' = "loop") => available_resources' = CatalogPool

C19_ModulePoolIntact == [](C19_State) /\ [][C19_Step]_vars

\* a run has emptied its copy and a further call on the list has failed
C19_Witness ==
    /\ calls = 2
    /\ pc = "error"
    /\ results[1].exc = "none"
    /\ available_resources = << >>
    /\ resource_pool = CatalogPool

(***************************************************************************)
(* C20: during a run total_operational_cost never decreases and never      *)
(* exceeds 123000; it is 123000 whenever the pool copy is empty.           *)
(***************************************************************************)
\* the summed operational_cost of the first n units of a list
RECURSIVE SumCosts(_, _)
SumCosts(list, n) ==
    IF n = 0 THEN 0 ELSE SumCosts(list, n - 1) + list[n].operational_cost

C20_State ==
    InRun =>
        /\ total_operational_cost <= 123000
        /\ SumCosts(resource_pool, Len(resource_pool)) = 123000
        /\ available_resources = << >> => total_operational_cost = 123000

C20_Step == (pc = "loop") => total_operational_cost' >= total_operational_cost

C20_OperationalCostBound == [](C20_State) /\ [][C20_Step]_vars

\* a run over incidents of more than one severity has emptied the pool
C20_Witness ==
    /\ InRun
    /\ available_resources = << >>
    /\ total_operational_cost = 123000
    /\ Cardinality({incident_logs[k].severity : k \in 1..Len(incident_logs)}) >= 2


(***************************************************************************)
(* C15: in samp.simulate_deployment(df_events, allowed_low_misses = N),    *)
(* N defaulting to 4, the low severity events missed by policy are exactly *)
(* the first min(N, number of low severity events) low severity events in  *)
(* processing order, whether or not units are left in the pool; a policy   *)
(* miss consumes no unit of the pool, and every later low severity event   *)
(* is assigned a unit if one is left and missed for want of resources      *)
(* otherwise.                                                              *)
(***************************************************************************)
\* the rows of the frame that are of low severity once lower-cased
SampLowRows == {i \in 1..Len(input) : Lower(input[i].severity) = "low"}

C15_State ==
    InRun =>
        /\ allowed_low_misses \in SampArgs
        /\ Cardinality(Where(incident_logs, IsLowMiss))
               = Min(allowed_low_misses, Cardinality(Where(incident_logs, IsLow)))
        /\ \A k \in Where(incident_logs, IsLowMiss) :
              /\ IsLow(incident_logs[k])
              /\ \A j \in 1..(k - 1) :
                    IsLow(incident_logs[j]) => IsLowMiss(incident_logs[j])
        /\ pc = "done" =>
              Cardinality(Where(incident_logs, IsLowMiss))
                  = Min(allowed_low_misses, Cardinality(SampLowRows))

C15_Step ==
    (pc = "loop" /\ idx' = idx + 1 /\ samp_severity = "low") =>
        /\ Len(incident_logs') = Len(incident_logs) + 1
        /\ LET e == incident_logs'[Len(incident_logs')] IN
           IF low_missed_count < allowed_low_misses
           THEN /\ IsLowMiss(e)
                /\ available_resources' = available_resources
           ELSE /\ IsAssigned(e) <=> available_resources # << >>
                /\ IsNoResources(e) <=> available_resources = << >>
                /\ IsAssigned(e) => Len(available_resources') = Len(available_resources) - 1

C15_SampLowMissPolicy == []C15_State /\ [][C15_Step]_vars

\* the default N = 4 on a frame of more low rows than that: four policy misses
\* made while the whole pool was available, the fifth low row assigned, units
\* left over at the end
C15_Witness ==
    /\ pc = "done"
    /\ allowed_low_misses = DefaultAllowedLowMisses
    /\ Cardinality(SampLowRows) > DefaultAllowedLowMisses
    /\ \A k \in 1..DefaultAllowedLowMisses : IsLowMiss(incident_logs[k])
    /\ IsLow(incident_logs[DefaultAllowedLowMisses + 1])
    /\ IsAssigned(incident_logs[DefaultAllowedLowMisses + 1])
    /\ available_resources # << >>
    /\ Len(available_resources) = PoolSize - Cardinality(Where(incident_logs, IsAssigned))


(***************************************************************************)
(* C14: a POST to /simulate/ with an uploaded CSV saves the file, runs the *)
(* simulation of samp.py on it and answers with the message "Simulation    *)
(* completed successfully" together with the report and the logs.          *)
(***************************************************************************)
C14_PostSucceeds ==
    \A r \in DOMAIN req :
        req[r].at = "returned" =>
            /\ req[r].response.kind = "message"
            /\ req[r].response.body = "Simulation completed successfully"

(***************************************************************************)
(* C17: the uploaded CSV is stored only temporarily: once a handler has    *)
(* returned, with the success message or with an {"error": ...} response,  *)
(* and no other handler holds the file open, current_wildfiredata.csv does *)
(* not exist.                                                              *)
(***************************************************************************)
C17_FileGoneAfterReturn ==
    (/\ \E r \in DOMAIN req : req[r].at = "returned"
     /\ \A r \in DOMAIN req : ~req[r].opened)
        => ~fs.exists


(***************************************************************************)
(* C21: when POST /simulate/ requests are handled concurrently, one        *)
(* handler suspended at "await file.read()" while another runs, the file   *)
(* that each request hands to its simulation holds exactly the bytes that  *)
(* request uploaded.                                                       *)
(***************************************************************************)
C21_SimulationReadsOwnUpload ==
    \A r \in DOMAIN req :
        req[r].at = "returned" => req[r].on_disk = req[r].upload

============================================================================
